---------------------------- MODULE Spec2Model ----------------------------
(***************************************************************************)
(* Model of the action layer (MessageSender, AnnotationModifier,          *)
(* StateModifier: actions.py) and of the Demarche entity (demarche.py)    *)
(* of demarches_simpy.                                                     *)
(*                                                                         *)
(* Python dicts are functions over a set of string keys.  An exception    *)
(* leaving a method is recorded in the "outcome" field of the last call.  *)
(* The remote API is the environment: each send_request / fetch either    *)
(* succeeds or raises DemarchesSimpyException, chosen with \E.            *)
(***************************************************************************)
EXTENDS Integers, Sequences, FiniteSets, TLC

\* ------------------------------------------------------------------ bounds
MaxCalls == 2        \* perform calls counted per run of the action layer
MaxNodes == 2        \* longest list of dossier nodes in a response

\* ------------------------------------------------------------- value sets
None == "None"                       \* Python None
DossierIds == {"D1", "D2"}           \* Dossier.get_id() of the target dossier
ProfileInstructeurs == {None, "Ip"}  \* instructeur id held by the profile
ArgInstructeurs == {None, "Ia"}      \* instructeur_id constructor argument
AnnotationIds == {"A1", "A2"}
Values == {"v1", "v2"}
Messages == {"", "m1"}

EmptyDict == [k \in {} |-> ""]

\* d[k] = v, as a Python dict assignment
SetKey(d, k, v) == [x \in (DOMAIN d) \cup {k} |-> IF x = k THEN v ELSE d[x]]

\* every dict with keys among id / stringValue
Annotations ==
  { a \in UNION { [D -> AnnotationIds \cup Values] : D \in SUBSET {"id", "stringValue"} } :
      /\ ("id" \in DOMAIN a => a["id"] \in AnnotationIds)
      /\ ("stringValue" \in DOMAIN a => a["stringValue"] \in Values) }

\* ----------------------------------------------------- interfaces (IAction)
SUCCESS == "SUCCESS"
ERROR == "ERROR"

\* DossierState
ARCHIVE == "Archiver"
CONSTRUCTION == "EnConstruction"
INSTRUCTION == "EnInstruction"
ACCEPTER == "Accepter"
REFUSER == "Refuser"
SANS_SUITE == "ClasserSansSuite"
DossierState == {ARCHIVE, CONSTRUCTION, INSTRUCTION, ACCEPTER, REFUSER, SANS_SUITE}

\* ILog.error logs the message and raises DemarchesSimpyException
ILog_error_raises == TRUE

\* IAction.__init__: the argument when given, else the profile's id
IAction_instructeur_id(profile_id, instructeur_id) ==
  IF instructeur_id # None THEN instructeur_id ELSE profile_id

VARIABLES
  profile,     \* instructeur id of the Profile (None when it has none)
  dossier,     \* id of the Dossier the actions target
  ms,          \* the MessageSender
  am,          \* the AnnotationModifier
  sm,          \* the StateModifier
  lastCall,    \* the last constructor / perform call, the object's input
               \* dict when it began, and how it ended
  lastReq,     \* the last body handed to send_request
  errLog,      \* the last message given to ILog.error
  nPerform,    \* perform calls made with valid arguments
  nSent        \* send_request calls made

avars == <<profile, dossier, ms, am, sm, lastCall, lastReq, errLog, nPerform, nSent>>

NoObject == [status |-> "none", instructeur_id |-> None, input |-> EmptyDict]

NoCall == [op |-> "none", anotation |-> EmptyDict, value |-> None, state |-> None,
           msg |-> None, arg |-> None, before |-> EmptyDict, raised |-> FALSE,
           outcome |-> "none"]

NoReq == [kind |-> "none", operationName |-> "", input |-> EmptyDict]

InitActions ==
  /\ profile \in ProfileInstructeurs
  /\ dossier \in DossierIds
  /\ ms = NoObject
  /\ am = NoObject
  /\ sm = NoObject
  /\ lastCall = NoCall
  /\ lastReq = NoReq
  /\ errLog = None
  /\ nPerform = 0
  /\ nSent = 0

\* RequestBuilder.send_request(body): one request leaves for the remote API
send_request(body) ==
  /\ lastReq' = body
  /\ nSent' = nSent + 1

\* ------------------------------------------------------------ constructors
\* MessageSender.__init__
MessageSender_init(instructeur_id) ==
  /\ ms.status = "none"
  /\ ms' = [status |-> "built",
            instructeur_id |-> IAction_instructeur_id(profile, instructeur_id),
            input |-> EmptyDict]
  /\ lastCall' = [NoCall EXCEPT !.op = "MessageSender.__init__",
                                !.arg = instructeur_id, !.outcome = "built"]
  /\ UNCHANGED <<profile, dossier, am, sm, lastReq, errLog, nPerform, nSent>>

\* AnnotationModifier.__init__
AnnotationModifier_init(instructeur_id) ==
  /\ am.status = "none"
  /\ LET id == IAction_instructeur_id(profile, instructeur_id)
     IN am' = [status |-> "built", instructeur_id |-> id,
               input |-> [dossierId |-> dossier, instructeurId |-> id]]
  /\ lastCall' = [NoCall EXCEPT !.op = "AnnotationModifier.__init__",
                                !.arg = instructeur_id, !.outcome = "built"]
  /\ UNCHANGED <<profile, dossier, ms, sm, lastReq, errLog, nPerform, nSent>>

\* mutant: only the profile is looked at, and the wrong way round
StateModifier_no_instructeur_profile(profile_id, instructeur_id) ==
  profile_id # None /\ instructeur_id = None

\* the test of StateModifier.__init__ that leads to self.error
StateModifier_no_instructeur(profile_id, instructeur_id) ==
  (~ (profile_id # None)) /\ instructeur_id = None

NoInstructeurMessage == "No instructeur id was provided to the profile, cannot change state."

\* StateModifier.__init__
StateModifier_init(instructeur_id) ==
  /\ sm.status # "built"
  /\ LET id == IAction_instructeur_id(profile, instructeur_id)
         built == [status |-> "built", instructeur_id |-> id,
                   input |-> [dossierId |-> dossier, instructeurId |-> id]]
     IN IF StateModifier_no_instructeur(profile, instructeur_id)
        THEN /\ errLog' = NoInstructeurMessage
             /\ IF ILog_error_raises
                THEN /\ sm' = [NoObject EXCEPT !.status = "failed"]
                     /\ lastCall' = [NoCall EXCEPT !.op = "StateModifier.__init__",
                                       !.arg = instructeur_id,
                                       !.outcome = "DemarchesSimpyException"]
                ELSE /\ sm' = built
                     /\ lastCall' = [NoCall EXCEPT !.op = "StateModifier.__init__",
                                       !.arg = instructeur_id, !.outcome = "built"]
        ELSE /\ sm' = built
             /\ lastCall' = [NoCall EXCEPT !.op = "StateModifier.__init__",
                               !.arg = instructeur_id, !.outcome = "built"]
             /\ UNCHANGED errLog
  /\ UNCHANGED <<profile, dossier, ms, am, lastReq, nPerform, nSent>>

\* ---------------------------------------------------------- MessageSender
\* the try / except around send_request in MessageSender.perform
MessageSender_result(raised) == IF raised THEN ERROR ELSE SUCCESS

\* mutant: a failed request is sent a second time
MessageSender_perform_retry(mess, raised) ==
  /\ ms.status = "built"
  /\ nPerform < MaxCalls
  /\ lastReq' = [kind |-> "message", operationName |-> "",
                 input |-> [dossierId |-> dossier,
                            instructeurId |-> ms.instructeur_id,
                            body |-> mess]]
  /\ nSent' = nSent + (IF raised THEN 2 ELSE 1)
  /\ nPerform' = nPerform + 1
  /\ lastCall' = [NoCall EXCEPT !.op = "MessageSender.perform", !.msg = mess,
                                !.raised = raised,
                                !.outcome = IF raised THEN ERROR ELSE SUCCESS]
  /\ UNCHANGED <<profile, dossier, ms, am, sm, errLog>>

\* MessageSender.perform(mess); raised: send_request raised DemarchesSimpyException
MessageSender_perform(mess, raised) ==
  /\ ms.status = "built"
  /\ nPerform < MaxCalls
  /\ LET variables == [dossierId |-> dossier,
                       instructeurId |-> ms.instructeur_id,
                       body |-> mess]
     IN send_request([kind |-> "message", operationName |-> "", input |-> variables])
  /\ nPerform' = nPerform + 1
  /\ lastCall' = [NoCall EXCEPT !.op = "MessageSender.perform", !.msg = mess,
                                !.raised = raised,
                                !.outcome = MessageSender_result(raised)]
  /\ UNCHANGED <<profile, dossier, ms, am, sm, errLog>>

\* ------------------------------------------------------ AnnotationModifier
\* the validity test at the head of AnnotationModifier.perform
AnnotationModifier_invalid(anotation, value) ==
  (~ ("id" \in DOMAIN anotation))
    \/ ((~ ("stringValue" \in DOMAIN anotation)) /\ value = None)

\* mutant: a value already in self.input is kept
AnnotationModifier_input_keep(input, anotation, value) ==
  LET withId == SetKey(input, "annotationId", anotation["id"])
  IN IF "value" \in DOMAIN input
     THEN withId
     ELSE SetKey(withId, "value",
                 IF value = None THEN anotation["stringValue"] ELSE value)

\* the two assignments to self.input of AnnotationModifier.perform
AnnotationModifier_input(input, anotation, value) ==
  LET withId == SetKey(input, "annotationId", anotation["id"])
  IN SetKey(withId, "value", IF value = None THEN anotation["stringValue"] ELSE value)

\* the try / except around send_request in AnnotationModifier.perform
AnnotationModifier_result(raised) == IF raised THEN ERROR ELSE SUCCESS

\* AnnotationModifier.perform(anotation, value)
AnnotationModifier_perform(anotation, value, raised) ==
  /\ am.status = "built"
  /\ IF AnnotationModifier_invalid(anotation, value)
     THEN /\ errLog' = "Invalid anotation provided"
          /\ IF ILog_error_raises
             THEN /\ am' = am
                  /\ lastCall' = [NoCall EXCEPT !.op = "AnnotationModifier.perform",
                                    !.anotation = anotation, !.value = value,
                                    !.before = am.input,
                                    !.outcome = "DemarchesSimpyException"]
             ELSE \* the method goes on and a missing key is read
                  /\ am' = IF "id" \in DOMAIN anotation
                           THEN [am EXCEPT !.input =
                                   SetKey(am.input, "annotationId", anotation["id"])]
                           ELSE am
                  /\ lastCall' = [NoCall EXCEPT !.op = "AnnotationModifier.perform",
                                    !.anotation = anotation, !.value = value,
                                    !.before = am.input,
                                    !.outcome = "KeyError"]
          /\ UNCHANGED <<lastReq, nPerform, nSent>>
     ELSE /\ nPerform < MaxCalls
          /\ LET input == AnnotationModifier_input(am.input, anotation, value)
             IN /\ am' = [am EXCEPT !.input = input]
                /\ send_request([kind |-> "annotation",
                                 operationName |-> "dossierModifierAnnotationText",
                                 input |-> input])
          /\ nPerform' = nPerform + 1
          /\ lastCall' = [NoCall EXCEPT !.op = "AnnotationModifier.perform",
                            !.anotation = anotation, !.value = value,
                            !.before = am.input, !.raised = raised,
                            !.outcome = AnnotationModifier_result(raised)]
          /\ UNCHANGED errLog
  /\ UNCHANGED <<profile, dossier, ms, sm>>

\* ------------------------------------------------------------ StateModifier
\* the conditional assignment to self.input['motivation']
StateModifier_input(input, state, msg) ==
  IF state = ACCEPTER \/ state = REFUSER \/ state = SANS_SUITE
  THEN SetKey(input, "motivation", msg)
  ELSE input

\* mutant: the two prefixes exchanged
operation_name_swapped(state) ==
  LET n0 == "dossier"
      n1 == n0 \o (IF state = INSTRUCTION THEN "Repasser" ELSE "")
      n2 == n1 \o (IF state = CONSTRUCTION THEN "Passer" ELSE "")
  IN n2 \o state

\* the operation name built in StateModifier.perform
operation_name(state) ==
  LET n0 == "dossier"
      n1 == n0 \o (IF state = INSTRUCTION THEN "Passer" ELSE "")
      n2 == n1 \o (IF state = CONSTRUCTION THEN "Repasser" ELSE "")
  IN n2 \o state

\* mutant: the except branch reports success
StateModifier_result_swallow(raised) == SUCCESS

\* the try / except around send_request in StateModifier.perform
StateModifier_result(raised) == IF raised THEN ERROR ELSE SUCCESS

\* StateModifier.perform(state, msg)
StateModifier_perform(state, msg, raised) ==
  /\ sm.status = "built"
  /\ nPerform < MaxCalls
  /\ LET input == StateModifier_input(sm.input, state, msg)
     IN /\ sm' = [sm EXCEPT !.input = input]
        /\ send_request([kind |-> "state",
                         operationName |-> operation_name(state),
                         input |-> input])
  /\ nPerform' = nPerform + 1
  /\ lastCall' = [NoCall EXCEPT !.op = "StateModifier.perform", !.state = state,
                                !.msg = msg, !.before = sm.input,
                                !.raised = raised,
                                !.outcome = StateModifier_result(raised)]
  /\ UNCHANGED <<profile, dossier, ms, am, errLog>>

NextActions ==
  \/ \E i \in ArgInstructeurs : MessageSender_init(i)
  \/ \E i \in ArgInstructeurs : AnnotationModifier_init(i)
  \/ \E i \in ArgInstructeurs : StateModifier_init(i)
  \/ \E m \in Messages, r \in BOOLEAN : MessageSender_perform(m, r)
  \/ \E a \in Annotations, v \in Values \cup {None}, r \in BOOLEAN :
       AnnotationModifier_perform(a, v, r)
  \/ \E s \in DossierState, m \in Messages, r \in BOOLEAN : StateModifier_perform(s, m, r)

\* ================================================================ Demarche
NodePool == {[id |-> "d1", number |-> 1], [id |-> "d2", number |-> 2]}

\* the lists of dossier nodes a response can carry
NodeLists == UNION { [1..n -> NodePool] : n \in 0..MaxNodes }

VARIABLES
  dVars,          \* names of the variables set in the Demarche's request
  dData,          \* the cached response (NoData before the first fetch)
  dossiers,       \* Demarche.dossiers
  instructeurs,   \* Demarche.instructeurs ("unset" until assigned)
  lastD,          \* the last Demarche call and how it ended
  nForcedFields   \* force_fetch calls made by get_fields

dvars == <<dVars, dData, dossiers, instructeurs, lastD, nForcedFields>>

vars == <<profile, dossier, ms, am, sm, lastCall, lastReq, errLog, nPerform, nSent,
          dVars, dData, dossiers, instructeurs, lastD, nForcedFields>>

NoData == [fetched |-> FALSE, nodes |-> <<>>, vars |-> {}]

NoDCall == [op |-> "none", outcome |-> "none", ret |-> <<>>, built |-> 0,
            preSet |-> FALSE, forced |-> FALSE]

\* Demarche.__init__
InitDemarche ==
  /\ dVars = {"demarcheNumber"}
  /\ dData = NoData
  /\ dossiers = <<>>
  /\ instructeurs = "unset"
  /\ lastD = NoDCall
  /\ nForcedFields = 0

\* the response of a successful request: the nodes the server holds and the
\* parts the request's variables ask for
Response(nodes, variables) == [fetched |-> TRUE, nodes |-> nodes, vars |-> variables]

\* IData.get_data: the cached response, fetched first when there is none
get_data(data, variables, nodes) ==
  IF data.fetched THEN data ELSE Response(nodes, variables)

\* Dossier(number=number, id=id, profile=self.profile)
Dossier(node) == [class |-> "Dossier", id |-> node.id, number |-> node.number]

\* Demarche.get_dossier_infos
get_dossier_infos(data) == [i \in 1..Len(data.nodes) |-> <<data.nodes[i].id, data.nodes[i].number>>]

\* Demarche.get_dossiers_count
get_dossiers_count(data) == Len(get_dossier_infos(data))

\* the test of Demarche.get_dossiers that leads to rebuilding the list
get_dossiers_rebuild(cached, data) ==
  Len(cached) = 0 \/ get_dossiers_count(data) # Len(cached)

Raise(op) == [NoDCall EXCEPT !.op = op, !.outcome = "raise"]

\* IData.force_fetch, called from outside the Demarche
force_fetch(nodes, ok) ==
  /\ dData' = IF ok THEN Response(nodes, dVars) ELSE dData
  /\ lastD' = [NoDCall EXCEPT !.op = "force_fetch", !.forced = TRUE,
                              !.outcome = IF ok THEN "ok" ELSE "raise"]
  /\ UNCHANGED <<dVars, dossiers, instructeurs, nForcedFields>>

\* Demarche.get_dossiers; nodes, ok: what a fetch made by the call meets
get_dossiers(nodes, ok) ==
  /\ IF ~dData.fetched /\ ~ok
     THEN /\ lastD' = Raise("get_dossiers")
          /\ UNCHANGED <<dData, dossiers>>
     ELSE LET data == get_data(dData, dVars, nodes)
              infos == get_dossier_infos(data)
              rebuild == get_dossiers_rebuild(dossiers, data)
              list == IF rebuild
                      THEN [i \in 1..Len(infos) |->
                              Dossier([id |-> infos[i][1], number |-> infos[i][2]])]
                      ELSE dossiers
          IN /\ dData' = data
             /\ dossiers' = list
             /\ lastD' = [NoDCall EXCEPT !.op = "get_dossiers", !.outcome = "ok",
                                         !.ret = list,
                                         !.built = IF rebuild THEN Len(infos) ELSE 0]
  /\ UNCHANGED <<dVars, instructeurs, nForcedFields>>

\* mutant: get_fields forgets to set its variable
get_fields_variable_none == {}

\* the variable Demarche.get_fields sets before its forced fetch
get_fields_variable == {"includeRevision"}

\* Demarche.get_fields
get_fields(nodes, ok) ==
  /\ IF "includeRevision" \in dVars
     THEN /\ IF ~dData.fetched /\ ~ok
             THEN /\ lastD' = [Raise("get_fields") EXCEPT !.preSet = TRUE]
                  /\ UNCHANGED dData
             ELSE LET data == get_data(dData, dVars, nodes)
                  IN /\ dData' = data
                     /\ lastD' = [NoDCall EXCEPT !.op = "get_fields", !.preSet = TRUE,
                                    !.outcome = IF "includeRevision" \in data.vars
                                                THEN "ok" ELSE "raise"]
          /\ UNCHANGED <<dVars, nForcedFields>>
     ELSE /\ nForcedFields < MaxCalls
          /\ dVars' = dVars \cup get_fields_variable
          /\ nForcedFields' = nForcedFields + 1
          /\ dData' = IF ok THEN Response(nodes, dVars') ELSE dData
          /\ lastD' = [NoDCall EXCEPT !.op = "get_fields", !.forced = TRUE,
                         !.outcome = IF ok /\ "includeRevision" \in dVars'
                                     THEN "ok" ELSE "raise"]
  /\ UNCHANGED <<dossiers, instructeurs>>

\* Demarche.get_instructeurs_info
get_instructeurs_info(nodes, ok) ==
  /\ IF "includeInstructeurs" \notin dVars
     THEN /\ dVars' = dVars \cup {"includeInstructeurs", "includeGroupeInstructeurs"}
          /\ dData' = IF ok THEN Response(nodes, dVars') ELSE dData
          /\ instructeurs' = IF ok THEN "loaded" ELSE instructeurs
          /\ lastD' = [NoDCall EXCEPT !.op = "get_instructeurs_info", !.forced = TRUE,
                         !.outcome = IF ok THEN "ok" ELSE "raise"]
     ELSE /\ lastD' = [NoDCall EXCEPT !.op = "get_instructeurs_info", !.preSet = TRUE,
                         !.outcome = IF instructeurs = "unset" THEN "raise" ELSE "ok"]
          /\ UNCHANGED <<dVars, dData, instructeurs>>
  /\ UNCHANGED <<dossiers, nForcedFields>>

NextDemarche ==
  \/ \E n \in NodeLists, ok \in BOOLEAN : force_fetch(n, ok)
  \/ \E n \in NodeLists, ok \in BOOLEAN : get_dossiers(n, ok)
  \/ \E n \in NodeLists, ok \in BOOLEAN : get_fields(n, ok)
  \/ \E n \in NodeLists, ok \in BOOLEAN : get_instructeurs_info(n, ok)

\* ------------------------------------------------------------ specifications
Init == InitActions /\ InitDemarche

\* the action layer, the Demarche left as constructed
Next == NextActions /\ UNCHANGED dvars

Spec == Init /\ [][Next]_vars

\* the Demarche, the actions left unconstructed
NextD == NextDemarche /\ UNCHANGED avars

SpecDemarche == Init /\ [][NextD]_vars

\* ==================================================================== claims
PerformOps == {"MessageSender.perform", "AnnotationModifier.perform", "StateModifier.perform"}

\* the last call was a perform that got as far as send_request
ValidPerform ==
  /\ lastCall.op \in PerformOps
  /\ lastCall.op = "AnnotationModifier.perform"
       => ~AnnotationModifier_invalid(lastCall.anotation, lastCall.value)

\* C1: a perform of MessageSender, AnnotationModifier (valid annotation) or
\* StateModifier returns SUCCESS exactly when send_request did not raise
\* DemarchesSimpyException and ERROR exactly when it did; the exception never
\* leaves perform.
C1_ResultFollowsRequest ==
  ValidPerform =>
    /\ lastCall.outcome \in {SUCCESS, ERROR}
    /\ (lastCall.outcome = SUCCESS) <=> ~lastCall.raised
    /\ (lastCall.outcome = ERROR) <=> lastCall.raised

C1_Witness ==
  /\ lastCall.op = "StateModifier.perform"
  /\ lastCall.raised
  /\ lastCall.outcome = ERROR

\* C2: every perform with valid arguments issues exactly one send_request,
\* failed or not, so the requests sent number the perform calls made.
C2_OneRequestPerPerform == nSent = nPerform

C2_Witness ==
  /\ nPerform = 2
  /\ lastCall.op = "MessageSender.perform"
  /\ lastCall.raised

\* C3: AnnotationModifier.perform with an invalid annotation returns the
\* failure result to the caller.
C3_InvalidReturnsFailure ==
  (/\ lastCall.op = "AnnotationModifier.perform"
   /\ AnnotationModifier_invalid(lastCall.anotation, lastCall.value))
    => lastCall.outcome = ERROR

\* C4: the input of a request sent by AnnotationModifier.perform carries this
\* call's annotation id, this call's value (the annotation's stringValue when
\* no value is given), the dossier and instructeur ids of construction, and
\* nothing else.
C4_InputIsThisCall ==
  (/\ lastCall.op = "AnnotationModifier.perform"
   /\ lastCall.outcome \in {SUCCESS, ERROR})
    => /\ lastReq.kind = "annotation"
       /\ lastReq.input =
            [dossierId |-> dossier,
             instructeurId |-> am.instructeur_id,
             annotationId |-> lastCall.anotation["id"],
             value |-> IF lastCall.value # None THEN lastCall.value
                       ELSE lastCall.anotation["stringValue"]]

C4_Witness ==
  /\ lastCall.op = "AnnotationModifier.perform"
  /\ lastCall.outcome = SUCCESS
  /\ lastCall.value = None
  /\ "value" \in DOMAIN lastCall.before
  /\ lastCall.before["annotationId"] # lastCall.anotation["id"]
  /\ lastCall.before["value"] # lastCall.anotation["stringValue"]

C6_Prefix(s) ==
  CASE s = INSTRUCTION -> "Passer"
    [] s = CONSTRUCTION -> "Repasser"
    [] OTHER -> ""

\* C6: the request of StateModifier.perform(s) has operationName 'dossier' +
\* prefix + s, the prefix 'Passer' for INSTRUCTION, 'Repasser' for
\* CONSTRUCTION and empty otherwise, whatever msg and the earlier calls were.
C6_OperationName ==
  lastCall.op = "StateModifier.perform"
    => /\ lastReq.kind = "state"
       /\ lastReq.operationName = ("dossier" \o C6_Prefix(lastCall.state)) \o lastCall.state

C6_Witness ==
  /\ lastCall.op = "StateModifier.perform"
  /\ lastCall.state = CONSTRUCTION
  /\ lastReq.operationName = "dossierRepasserEnConstruction"
  /\ nPerform = 2

\* C8: the input of a request sent by StateModifier.perform(state, msg) has a
\* 'motivation' key exactly when state is ACCEPTER, REFUSER or SANS_SUITE, and
\* then its value is this call's msg.
C8_MotivationOnlyOfThisCall ==
  lastCall.op = "StateModifier.perform"
    => /\ ("motivation" \in DOMAIN lastReq.input)
            <=> lastCall.state \in {ACCEPTER, REFUSER, SANS_SUITE}
       /\ "motivation" \in DOMAIN lastReq.input
            => lastReq.input["motivation"] = lastCall.msg

\* C7: get_fields forces a re-fetch only when 'includeRevision' is not yet
\* set and sets it first; once it is set a get_fields call answers from the
\* cache; get_fields causes at most one forced re-fetch.
C7_OneForcedFetch ==
  /\ nForcedFields <= 1
  /\ nForcedFields >= 1 => "includeRevision" \in dVars
  /\ lastD.op = "get_fields" =>
       /\ lastD.forced <=> ~lastD.preSet
       /\ "includeRevision" \in dVars

C7_Witness ==
  /\ lastD.op = "get_fields"
  /\ lastD.preSet
  /\ ~lastD.forced
  /\ lastD.outcome = "ok"
  /\ nForcedFields = 1

\* C9: the list get_dossiers returns holds one Dossier per node of the
\* currently cached response, in order, each built from the node's
\* (id, number).
C9_ListMatchesResponse ==
  (lastD.op = "get_dossiers" /\ lastD.outcome = "ok")
    => lastD.ret = [i \in 1..Len(dData.nodes) |-> Dossier(dData.nodes[i])]


=============================================================================
